---------------------------- MODULE Spec2Model ----------------------------
(***************************************************************************)
(* Low-wastage regression: the retry-cost (wastage) engine and the         *)
(* sizing-model optimizer (LowWastageRegression, LinearModel).             *)
(*                                                                         *)
(* Numbers.  The optimizer and the wastage engine are modelled over exact  *)
(* rationals <<n, d>> (d > 0, lowest terms); <<0, 0>> stands for NaN.      *)
(* The normalisation round trip is modelled a second time in IEEE-754      *)
(* binary64 (section "binary64"), because the statement made about it is   *)
(* an exact equality of floating-point values.                             *)
(***************************************************************************)
EXTENDS Integers, Sequences, FiniteSets, TLC

VARIABLES
    \* ---- wastage engine: one population and the results of one policy
    df,             \* the population: a sequence of job records
    policy,         \* "none" until a policy has been applied, then its name
    args,           \* the policy's parameters
    fast,           \* the batch (vectorized) WastageResult
    slow,           \* the per-job reference WastageResult
    \* ---- a LowWastageRegression instance
    pc,                         \* where the instance is in its life
    training_input,             \* the training_data argument of __init__
    min_allocation,
    relative_time_to_failure,
    shift, scale, initial_ptp,  \* per column
    unscaled_mean_predictor,
    training_data,              \* self.training_data: the normalized copy
    initial_parameterss,        \* __train_linear__: the candidates
    cand,                       \* index of the candidate being refined
    started,                    \* the optimizer has evaluated its initial point
    iterates,                   \* further points the optimizer has evaluated
    parameters_tried,           \* __train_linear__: recorded models
    wastages_tried,             \* __train_linear__: their WastageResults
    model, quality,             \* self.model, self.quality
    evaluation,                 \* the data argument of the last predict
    prediction,                 \* the column predict returned
    recomputed,                 \* the WastageResult recomputed from it (the test's w)
    \* ---- __transform__ and __inverse_transform__ in binary64 arithmetic
    t_pc,                       \* "new", "fitted", "transformed" or "restored"
    t_training,                 \* the two columns of the training data (integers)
    t_shift, t_scale,           \* self.shift, self.scale: per column, binary64
    t_original,                 \* the columns of the data frame passed to __transform__
    t_data                      \* the columns of that data frame now, binary64

wvars == <<df, policy, args, fast, slow>>

ovars == <<pc, training_input, min_allocation, relative_time_to_failure, shift, scale,
           initial_ptp, unscaled_mean_predictor, training_data, initial_parameterss, cand,
           started, iterates, parameters_tried, wastages_tried, model, quality, evaluation,
           prediction, recomputed>>

tvars == <<t_pc, t_training, t_shift, t_scale, t_original, t_data>>

vars == <<wvars, ovars, tvars>>

-----------------------------------------------------------------------------
(* Exact rational arithmetic (Python/numpy float arithmetic without         *)
(* rounding).  Products and sums are reduced before they are formed, so     *)
(* that intermediate values stay small.                                     *)

Abs(x) == IF x < 0 THEN -x ELSE x

RECURSIVE Gcd(_, _)
Gcd(a, b) == IF b = 0 THEN a ELSE Gcd(b, a % b)

Norm(n, d) ==
    LET g == Gcd(Abs(n), Abs(d))
        s == IF d < 0 THEN -1 ELSE 1
    IN  IF d = 0 THEN <<0, 0>> ELSE <<s * (n \div g), s * (d \div g)>>

R(n) == <<n, 1>>
NaN == <<0, 0>>
IsNaN(a) == a[2] = 0

RAdd(a, b) ==
    IF IsNaN(a) \/ IsNaN(b) THEN NaN
    ELSE LET g == Gcd(a[2], b[2])
         IN  Norm(a[1] * (b[2] \div g) + b[1] * (a[2] \div g), a[2] * (b[2] \div g))

RNeg(a) == <<-a[1], a[2]>>
RSub(a, b) == RAdd(a, RNeg(b))

RMul(a, b) ==
    IF IsNaN(a) \/ IsNaN(b) THEN NaN
    ELSE LET g1 == Gcd(Abs(a[1]), b[2])
             g2 == Gcd(Abs(b[1]), a[2])
         IN  <<(a[1] \div g1) * (b[1] \div g2), (a[2] \div g2) * (b[2] \div g1)>>

\* a / b; x / 0 is NaN (0.0 / 0.0 in numpy)
RDiv(a, b) ==
    IF IsNaN(a) \/ IsNaN(b) \/ b[1] = 0 THEN NaN
    ELSE RMul(a, IF b[1] < 0 THEN <<-b[2], -b[1]>> ELSE <<b[2], b[1]>>)

\* floor of a rational
RFloor(a) == a[1] \div a[2]

\* a < b without forming the cross products: compare the integer parts, then
\* the reciprocals of the fractional parts (continued-fraction comparison)
RECURSIVE RLtPos(_, _, _, _)
RLtPos(n1, d1, n2, d2) ==
    LET q1 == n1 \div d1
        q2 == n2 \div d2
        r1 == n1 % d1
        r2 == n2 % d2
    IN  IF q1 # q2 THEN q1 < q2
        ELSE IF r2 = 0 THEN FALSE
        ELSE IF r1 = 0 THEN TRUE
        ELSE RLtPos(d2, r2, d1, r1)

\* comparisons with NaN are false, as in Python
RLt(a, b) == ~IsNaN(a) /\ ~IsNaN(b) /\ RLtPos(a[1], a[2], b[1], b[2])
RLe(a, b) == ~IsNaN(a) /\ ~IsNaN(b) /\ ~RLtPos(b[1], b[2], a[1], a[2])
RGe(a, b) == RLe(b, a)
RGt(a, b) == RLt(b, a)
RMax(a, b) == IF RLt(a, b) THEN b ELSE a
RAbs(a) == <<Abs(a[1]), a[2]>>

RECURSIVE RPow(_, _)
RPow(b, k) == IF k = 0 THEN R(1) ELSE RMul(b, RPow(b, k - 1))

RECURSIVE RSum(_)
RSum(s) == IF s = <<>> THEN R(0) ELSE RAdd(Head(s), RSum(Tail(s)))

-----------------------------------------------------------------------------
(* Natural numbers of any size, as little-endian sequences of 15-bit limbs   *)
(* without leading zero limbs (zero is the empty sequence).  They carry the  *)
(* 53-bit significands of binary64 and the exact intermediate results.       *)

LimbBits == 15

Radix == 2 ^ LimbBits

RECURSIVE BFromNat(_)
BFromNat(n) == IF n = 0 THEN <<>> ELSE <<n % Radix>> \o BFromNat(n \div Radix)

RECURSIVE BTrim(_)
BTrim(a) ==
    IF a = <<>> THEN <<>>
    ELSE IF a[Len(a)] = 0 THEN BTrim(SubSeq(a, 1, Len(a) - 1))
    ELSE a

BLimb(a, i) == IF i <= Len(a) THEN a[i] ELSE 0

RECURSIVE BAddFrom(_, _, _, _)
BAddFrom(a, b, i, carry) ==
    IF i > Len(a) /\ i > Len(b) THEN (IF carry = 0 THEN <<>> ELSE <<carry>>)
    ELSE LET t == BLimb(a, i) + BLimb(b, i) + carry
         IN  <<t % Radix>> \o BAddFrom(a, b, i + 1, t \div Radix)

BAdd(a, b) == BAddFrom(a, b, 1, 0)

RECURSIVE BSubFrom(_, _, _, _)
BSubFrom(a, b, i, borrow) ==
    IF i > Len(a) THEN <<>>
    ELSE LET t == a[i] - BLimb(b, i) - borrow
         IN  IF t < 0 THEN <<t + Radix>> \o BSubFrom(a, b, i + 1, 1)
             ELSE <<t>> \o BSubFrom(a, b, i + 1, 0)

\* a - b for a >= b
BSub(a, b) == BTrim(BSubFrom(a, b, 1, 0))

RECURSIVE BLtFrom(_, _, _)
BLtFrom(a, b, i) ==
    IF i = 0 THEN FALSE
    ELSE IF a[i] # b[i] THEN a[i] < b[i]
    ELSE BLtFrom(a, b, i - 1)

BLt(a, b) == IF Len(a) # Len(b) THEN Len(a) < Len(b) ELSE BLtFrom(a, b, Len(a))

RECURSIVE BMulLimbFrom(_, _, _, _)
BMulLimbFrom(a, k, i, carry) ==
    IF i > Len(a) THEN (IF carry = 0 THEN <<>> ELSE <<carry>>)
    ELSE LET t == a[i] * k + carry
         IN  <<t % Radix>> \o BMulLimbFrom(a, k, i + 1, t \div Radix)

\* a * k for a limb k
BMulLimb(a, k) == IF k = 0 THEN <<>> ELSE BMulLimbFrom(a, k, 1, 0)

\* a * Radix ^ n
BShlLimbs(a, n) == IF a = <<>> THEN <<>> ELSE [i \in 1..n |-> 0] \o a

RECURSIVE BMulFrom(_, _, _)
BMulFrom(a, b, j) ==
    IF j > Len(b) THEN <<>>
    ELSE BAdd(BShlLimbs(BMulLimb(a, b[j]), j - 1), BMulFrom(a, b, j + 1))

BMul(a, b) == BMulFrom(a, b, 1)

RECURSIVE BitLen(_)
BitLen(n) == IF n = 0 THEN 0 ELSE 1 + BitLen(n \div 2)

BBitLen(a) == IF a = <<>> THEN 0 ELSE LimbBits * (Len(a) - 1) + BitLen(a[Len(a)])

\* bit k of a (bit 0 is the lowest)
BBit(a, k) == (BLimb(a, k \div LimbBits + 1) \div (2 ^ (k % LimbBits))) % 2

\* a * 2 ^ k
BShl(a, k) == BMulLimb(BShlLimbs(a, k \div LimbBits), 2 ^ (k % LimbBits))

\* a \div 2 ^ k
BShr(a, k) ==
    LET n == k \div LimbBits
        r == k % LimbBits
    IN  IF n >= Len(a) THEN <<>>
        ELSE BTrim([i \in 1..(Len(a) - n) |->
                      (a[i + n] \div (2 ^ r))
                      + (BLimb(a, i + n + 1) % (2 ^ r)) * (2 ^ (LimbBits - r))])

\* the k lowest bits of a are zero
BLowZero(a, k) == BShl(BShr(a, k), k) = a

RECURSIVE BDivBits(_, _, _, _, _)
\* long division over the bits k .. stop of n, from the highest down; qr is
\* <<quotient, remainder>> of the bits above k
BDivBits(n, d, k, stop, qr) ==
    IF k < stop THEN qr
    ELSE LET r2 == BAdd(BAdd(qr[2], qr[2]), BFromNat(BBit(n, k)))
             q2 == BAdd(qr[1], qr[1])
         IN  IF BLt(r2, d) THEN BDivBits(n, d, k - 1, stop, <<q2, r2>>)
             ELSE BDivBits(n, d, k - 1, stop, <<BAdd(q2, <<1>>), BSub(r2, d)>>)

RECURSIVE BDivLimbs(_, _, _, _)
\* long division over the limbs i .. 1 of n
BDivLimbs(n, d, i, qr) ==
    IF i = 0 THEN qr
    ELSE BDivLimbs(n, d, i - 1, BDivBits(n, d, i * LimbBits - 1, (i - 1) * LimbBits, qr))

\* <<n \div d, n % d>> for d > 0
BDivMod(n, d) == BDivLimbs(n, d, Len(n), <<<<>>, <<>>>>)

RECURSIVE TrailingZeros(_)
TrailingZeros(n) == IF n % 2 = 1 THEN 0 ELSE 1 + TrailingZeros(n \div 2)

RECURSIVE BTrailingZerosFrom(_, _)
BTrailingZerosFrom(a, i) ==
    IF a[i] = 0 THEN LimbBits + BTrailingZerosFrom(a, i + 1) ELSE TrailingZeros(a[i])

\* the number of zero bits below the lowest one bit of a > 0
BTrailingZeros(a) == BTrailingZerosFrom(a, 1)

-----------------------------------------------------------------------------
(* IEEE 754 binary64 (the float64 of numpy): a finite value is               *)
(* (-1)^sign * man * 2^exp with man odd and below 2^53, or zero.  The        *)
(* arithmetic rounds the exact result to the nearest value, ties to even.    *)
(* Exponents are not limited: the values of the model stay far from          *)
(* overflow and from the subnormal range.                                    *)

\* number of significand bits of binary64
Precision == 53

FNaN == [nan |-> TRUE, sign |-> 0, man |-> <<>>, exp |-> 0]

FZero == [nan |-> FALSE, sign |-> 0, man |-> <<>>, exp |-> 0]

\* the value with the trailing zero bits of the significand moved into the exponent
FNorm(s, m, e) ==
    IF m = <<>> THEN FZero
    ELSE LET tz == BTrailingZeros(m)
         IN  [nan |-> FALSE, sign |-> s, man |-> BShr(m, tz), exp |-> e + tz]

\* round (man + a positive fraction if sticky) * 2^exp to Precision bits,
\* to nearest, ties to even
FRound(sign, man, exp, sticky) ==
    LET len == BBitLen(man)
        k == len - Precision
    IN  IF k <= 0 THEN FNorm(sign, man, exp)
        ELSE LET kept == BShr(man, k)
                 guard == BBit(man, k - 1)
                 rest == sticky \/ ~BLowZero(man, k - 1)
                 up == guard = 1 /\ (rest \/ BBit(kept, 0) = 1)
             IN  FNorm(sign, IF up THEN BAdd(kept, <<1>>) ELSE kept, exp + k)

\* float(n) for an integer n
FFromInt(n) == FNorm(IF n < 0 THEN 1 ELSE 0, BFromNat(IF n < 0 THEN -n ELSE n), 0)

FNeg(x) == IF x.nan \/ x.man = <<>> THEN x ELSE [x EXCEPT !.sign = 1 - @]

FAbs(x) == [x EXCEPT !.sign = 0]

\* x * 2^k
FScale2(x, k) == IF x.nan \/ x.man = <<>> THEN x ELSE [x EXCEPT !.exp = @ + k]

\* x + y
FAdd(x, y) ==
    IF x.nan \/ y.nan THEN FNaN
    ELSE IF x.man = <<>> THEN y
    ELSE IF y.man = <<>> THEN x
    ELSE LET e == IF x.exp < y.exp THEN x.exp ELSE y.exp
             ax == BShl(x.man, x.exp - e)
             ay == BShl(y.man, y.exp - e)
         IN  IF x.sign = y.sign THEN FRound(x.sign, BAdd(ax, ay), e, FALSE)
             ELSE IF BLt(ax, ay) THEN FRound(y.sign, BSub(ay, ax), e, FALSE)
             ELSE FRound(x.sign, BSub(ax, ay), e, FALSE)

\* x - y
FSub(x, y) == FAdd(x, FNeg(y))

\* x * y
FMul(x, y) ==
    IF x.nan \/ y.nan THEN FNaN
    ELSE FRound((x.sign + y.sign) % 2, BMul(x.man, y.man), x.exp + y.exp, FALSE)

\* x / y (0 / 0 is NaN; x / 0 for other x does not occur in the model)
FDiv(x, y) ==
    IF x.nan \/ y.nan \/ y.man = <<>> THEN FNaN
    ELSE IF x.man = <<>> THEN FZero
    ELSE LET need == Precision + 2 + BBitLen(y.man) - BBitLen(x.man)
             k == IF need > 0 THEN need ELSE 0
             qr == BDivMod(BShl(x.man, k), y.man)
         IN  FRound((x.sign + y.sign) % 2, qr[1], x.exp - y.exp - k, qr[2] # <<>>)

\* x <= y
FLe(x, y) == LET d == FSub(y, x) IN ~d.nan /\ d.sign = 0

\* x == y
FEq(x, y) == ~x.nan /\ ~y.nan /\ x = y

-----------------------------------------------------------------------------
(* Bounds of the model *)

\* largest population drawn for the wastage engine
MaxJobs == 2

\* number of failed attempts after which a simulated retry sequence is given up
\* as never succeeding (every positive first allocation of the model succeeds
\* well within it)
MaxAttempts == 7

-----------------------------------------------------------------------------
(* WastageResult: Wastage(oversizing, undersizing, usage, failures) and its  *)
(* derived MAQ = usage / (usage + oversizing + undersizing)                  *)

Wastage(oversizing, undersizing, usage, failures) ==
    [status |-> "ok", oversizing |-> oversizing, undersizing |-> undersizing,
     usage |-> usage, failures |-> failures,
     maq |-> RDiv(usage, RAdd(usage, RAdd(oversizing, undersizing)))]

\* a computation that ends without a WastageResult: "AssertionError" (a
\* violated precondition) or "diverges" (the retry sequence never succeeds)
NoWastage(why) ==
    [status |-> why, oversizing |-> NaN, undersizing |-> NaN, usage |-> NaN,
     failures |-> 0, maq |-> NaN]

-----------------------------------------------------------------------------
(* LinearModel *)

LinearModel(slope, intercept, base, floor) ==
    [slope |-> slope, intercept |-> intercept, base |-> base, min_allocation |-> floor]

\* np.clip(x * slope + intercept, a_min = min_allocation) with the clip left out
apply_unclipped(m, x) == RAdd(RMul(x, m.slope), m.intercept)

\* LinearModel.apply on one row
apply_row(m, x) == RMax(m.min_allocation, RAdd(RMul(x, m.slope), m.intercept))

\* LinearModel.apply: the allocation column of a population
apply(m, data) == [i \in 1..Len(data) |-> apply_row(m, data[i].input_size)]

\* data['first_allocation'] = column
assign_first_allocation(data, column) ==
    [i \in 1..Len(data) |-> [data[i] EXCEPT !.first_allocation = column[i]]]

-----------------------------------------------------------------------------
(* Per-job reference functions of the wastage engine.  Each simulates the    *)
(* retry sequence of one job attempt by attempt.                             *)

RECURSIVE exponential_retry(_, _, _, _, _, _)
\* attempt k requests `allocation`; a failed attempt costs allocation * abs_ttf
\* and the next one requests allocation * base
exponential_retry(real_usage, abs_ttf, allocation, base, undersizing, fails) ==
    IF RGe(allocation, real_usage)
    THEN [ok |-> TRUE, undersizing |-> undersizing, fails |-> fails, allocation |-> allocation]
    ELSE IF fails = MaxAttempts
    THEN [ok |-> FALSE, undersizing |-> NaN, fails |-> fails, allocation |-> NaN]
    ELSE exponential_retry(real_usage, abs_ttf, RMul(allocation, base), base,
                           RAdd(undersizing, RMul(allocation, abs_ttf)), fails + 1)

\* undersizing_wastage_exponential(real_usage, abs_ttf, first_allocation, base)
\* returns (undersizing, fails)
undersizing_wastage_exponential(real_usage, abs_ttf, first_allocation, base) ==
    exponential_retry(real_usage, abs_ttf, first_allocation, base, R(0), 0)

\* oversizing_wastage_exponential(real_usage, run_time, first_allocation, base):
\* the successful attempt's excess over the whole run time
oversizing_wastage_exponential(real_usage, run_time, first_allocation, base) ==
    LET r == exponential_retry(real_usage, R(0), first_allocation, base, R(0), 0)
    IN  [ok |-> r.ok,
         oversizing |-> IF r.ok THEN RMul(RSub(r.allocation, real_usage), run_time) ELSE NaN]

RECURSIVE prop_ttf_retry(_, _, _, _, _, _)
\* proportional time to failure: an attempt fails after
\* run_time * allocation / real_usage and costs allocation times that
prop_ttf_retry(real_usage, run_time, allocation, base, undersizing, fails) ==
    IF RGe(allocation, real_usage)
    THEN [ok |-> TRUE, undersizing |-> undersizing, fails |-> fails, allocation |-> allocation]
    ELSE IF fails = MaxAttempts
    THEN [ok |-> FALSE, undersizing |-> NaN, fails |-> fails, allocation |-> NaN]
    ELSE prop_ttf_retry(real_usage, run_time, RMul(allocation, base), base,
                        RAdd(undersizing,
                             RMul(allocation, RMul(run_time, RDiv(allocation, real_usage)))),
                        fails + 1)

undersizing_wastage_prop_ttf(real_usage, run_time, first_allocation, base) ==
    prop_ttf_retry(real_usage, run_time, first_allocation, base, R(0), 0)

\* oversizing_wastage_3step: the final allocation must be large enough to run
\* any task (assert), whichever attempt succeeds
oversizing_wastage_3step(real_usage, run_time, first_allocation, second_allocation, final_allocation) ==
    IF RLt(final_allocation, real_usage)
    THEN [ok |-> FALSE, oversizing |-> NaN]
    ELSE [ok |-> TRUE,
          oversizing |->
            IF RGe(first_allocation, real_usage)
            THEN RMul(RSub(first_allocation, real_usage), run_time)
            ELSE IF RGe(second_allocation, real_usage)
            THEN RMul(RSub(second_allocation, real_usage), run_time)
            ELSE RMul(RSub(final_allocation, real_usage), run_time)]

\* undersizing_wastage_3step(real_usage, abs_ttf, first_allocation, second_allocation)
\* returns (undersizing, fails)
undersizing_wastage_3step(real_usage, abs_ttf, first_allocation, second_allocation) ==
    IF RGe(first_allocation, real_usage)
    THEN [undersizing |-> R(0), fails |-> 0]
    ELSE IF RGe(second_allocation, real_usage)
    THEN [undersizing |-> RMul(first_allocation, abs_ttf), fails |-> 1]
    ELSE [undersizing |-> RMul(RAdd(first_allocation, second_allocation), abs_ttf), fails |-> 2]

-----------------------------------------------------------------------------
(* The naive aggregators: the wastage of a population as the sum of the      *)
(* per-job functions over its rows.                                          *)

\* sum(df['run_time'] * df['rss'])
usage_of(data) == RSum([i \in 1..Len(data) |-> RMul(data[i].run_time, data[i].rss)])

RECURSIVE IntSum(_)
IntSum(s) == IF s = <<>> THEN 0 ELSE Head(s) + IntSum(Tail(s))

\* the rows' abs_ttf = row.run_time * relative_ttf, with the run time left out
naive_abs_ttf_no_run_time(row, relative_ttf) == relative_ttf

\* abs_ttf = row.run_time * relative_ttf
naive_abs_ttf(row, relative_ttf) == RMul(row.run_time, relative_ttf)

wastage_exponential_naive(data, relative_ttf, base) ==
    LET o == [i \in 1..Len(data) |->
                oversizing_wastage_exponential(data[i].rss, data[i].run_time,
                                               data[i].first_allocation, base)]
        u == [i \in 1..Len(data) |->
                undersizing_wastage_exponential(data[i].rss, naive_abs_ttf(data[i], relative_ttf),
                                                data[i].first_allocation, base)]
    IN  IF Len(data) = 0 THEN NoWastage("AssertionError")
        ELSE IF \E i \in 1..Len(data) : ~o[i].ok \/ ~u[i].ok THEN NoWastage("diverges")
        ELSE Wastage(RSum([i \in 1..Len(data) |-> o[i].oversizing]),
                     RSum([i \in 1..Len(data) |-> u[i].undersizing]),
                     usage_of(data),
                     IntSum([i \in 1..Len(data) |-> u[i].fails]))

\* the reference loop with max_seen_so_far passed as the final allocation too
wastage_3step_naive_wrong_ceiling(data, max_seen_so_far, max_available, relative_ttf) ==
    LET o == [i \in 1..Len(data) |->
                oversizing_wastage_3step(data[i].rss, data[i].run_time,
                                         data[i].first_allocation, max_seen_so_far, max_seen_so_far)]
        u == [i \in 1..Len(data) |->
                undersizing_wastage_3step(data[i].rss, naive_abs_ttf(data[i], relative_ttf),
                                          data[i].first_allocation, max_seen_so_far)]
    IN  IF Len(data) = 0 THEN NoWastage("AssertionError")
        ELSE IF \E i \in 1..Len(data) : ~o[i].ok THEN NoWastage("AssertionError")
        ELSE Wastage(RSum([i \in 1..Len(data) |-> o[i].oversizing]),
                     RSum([i \in 1..Len(data) |-> u[i].undersizing]),
                     usage_of(data),
                     IntSum([i \in 1..Len(data) |-> u[i].fails]))

wastage_3step_naive(data, max_seen_so_far, max_available, relative_ttf) ==
    LET o == [i \in 1..Len(data) |->
                oversizing_wastage_3step(data[i].rss, data[i].run_time,
                                         data[i].first_allocation, max_seen_so_far, max_available)]
        u == [i \in 1..Len(data) |->
                undersizing_wastage_3step(data[i].rss, naive_abs_ttf(data[i], relative_ttf),
                                          data[i].first_allocation, max_seen_so_far)]
    IN  IF Len(data) = 0 THEN NoWastage("AssertionError")
        ELSE IF \E i \in 1..Len(data) : ~o[i].ok THEN NoWastage("AssertionError")
        ELSE Wastage(RSum([i \in 1..Len(data) |-> o[i].oversizing]),
                     RSum([i \in 1..Len(data) |-> u[i].undersizing]),
                     usage_of(data),
                     IntSum([i \in 1..Len(data) |-> u[i].fails]))

-----------------------------------------------------------------------------
(* The batch (vectorized) forms: closed-form arithmetic per row, no          *)
(* per-attempt loop.                                                         *)

succeeds_at(real_usage, first_allocation, base, k) ==
    RGe(RMul(first_allocation, RPow(base, k)), real_usage)

\* k*: the smallest k with first_allocation * base^k >= resource_usage
\* (the rounded-up logarithm of resource_usage / first_allocation); -1 if none
k_star(real_usage, first_allocation, base) ==
    IF \E k \in 0..MaxAttempts : succeeds_at(real_usage, first_allocation, base, k)
    THEN CHOOSE k \in 0..MaxAttempts :
            /\ succeeds_at(real_usage, first_allocation, base, k)
            /\ \A j \in 0..(k - 1) : ~succeeds_at(real_usage, first_allocation, base, j)
    ELSE -1

\* first_allocation * (base^k - 1) / (base - 1): the allocations of attempts 0..k-1
geometric_sum(first_allocation, base, k) ==
    RMul(first_allocation, RDiv(RSub(RPow(base, k), R(1)), RSub(base, R(1))))

\* Wastage.exponential / wastage_exponential(df, relative_ttf, base)
wastage_exponential(data, relative_ttf, base) ==
    LET k == [i \in 1..Len(data) |-> k_star(data[i].rss, data[i].first_allocation, base)]
    IN  IF Len(data) = 0 THEN NoWastage("AssertionError")
        ELSE IF \E i \in 1..Len(data) : k[i] < 0 THEN NoWastage("diverges")
        ELSE Wastage(
            RSum([i \in 1..Len(data) |->
                    RMul(RSub(RMul(data[i].first_allocation, RPow(base, k[i])), data[i].rss),
                         data[i].run_time)]),
            RMul(relative_ttf,
                 RSum([i \in 1..Len(data) |->
                         RMul(data[i].run_time,
                              geometric_sum(data[i].first_allocation, base, k[i]))])),
            usage_of(data),
            IntSum(k))

\* wastage_exponential_prop_ttf(df, base): the failed attempts cost
\* (run_time / resource_usage) * sum of allocation_k^2
wastage_exponential_prop_ttf(data, base) ==
    LET k == [i \in 1..Len(data) |-> k_star(data[i].rss, data[i].first_allocation, base)]
    IN  IF Len(data) = 0 THEN NoWastage("AssertionError")
        ELSE IF \E i \in 1..Len(data) : k[i] < 0 THEN NoWastage("diverges")
        ELSE Wastage(
            RSum([i \in 1..Len(data) |->
                    RMul(RSub(RMul(data[i].first_allocation, RPow(base, k[i])), data[i].rss),
                         data[i].run_time)]),
            RSum([i \in 1..Len(data) |->
                    IF k[i] = 0 THEN R(0)
                    ELSE RMul(RDiv(data[i].run_time, data[i].rss),
                              geometric_sum(RMul(data[i].first_allocation, data[i].first_allocation),
                                            RMul(base, base), k[i]))]),
            usage_of(data),
            IntSum(k))

\* m - 1 for the first of the three attempts that meets resource_usage
failures_3step(real_usage, first_allocation, second_allocation) ==
    IF RGe(first_allocation, real_usage) THEN 0
    ELSE IF RGe(second_allocation, real_usage) THEN 1 ELSE 2

\* wastage_3step(df, max_seen_so_far, max_available, relative_ttf)
wastage_3step(data, max_seen_so_far, max_available, relative_ttf) ==
    LET f == [i \in 1..Len(data) |->
                failures_3step(data[i].rss, data[i].first_allocation, max_seen_so_far)]
        allocation == [i \in 1..Len(data) |->
                CASE f[i] = 0 -> data[i].first_allocation
                  [] f[i] = 1 -> max_seen_so_far
                  [] OTHER    -> max_available]
    IN  IF Len(data) = 0 THEN NoWastage("AssertionError")
        ELSE IF \E i \in 1..Len(data) : RLt(max_available, data[i].rss)
        THEN NoWastage("AssertionError")
        ELSE Wastage(
            RSum([i \in 1..Len(data) |->
                    RMul(RSub(allocation[i], data[i].rss), data[i].run_time)]),
            \* relative_ttf times the failed allocations, not scaled by run time
            RMul(relative_ttf,
                 RSum([i \in 1..Len(data) |->
                         CASE f[i] = 0 -> R(0)
                           [] f[i] = 1 -> data[i].first_allocation
                           [] OTHER    -> RAdd(data[i].first_allocation, max_seen_so_far)])),
            usage_of(data),
            IntSum(f))

\* the simple policy on one job: success at once, or one failure that wastes
\* the whole first allocation
simple_job(real_usage, first_allocation) ==
    IF RGe(first_allocation, real_usage)
    THEN [oversizing |-> RSub(first_allocation, real_usage), undersizing |-> R(0),
          usage |-> real_usage, fails |-> 0]
    ELSE [oversizing |-> R(0), undersizing |-> first_allocation, usage |-> R(0), fails |-> 1]

\* wastage_simple with success decided by > instead of >=
wastage_simple_strict(data) ==
    LET success == {i \in 1..Len(data) : RGt(data[i].first_allocation, data[i].rss)}
        col(i, v) == IF i \in success THEN v ELSE R(0)
    IN  IF Len(data) = 0 THEN NoWastage("AssertionError")
        ELSE Wastage(
            RSum([i \in 1..Len(data) |-> col(i, RSub(data[i].first_allocation, data[i].rss))]),
            RSum([i \in 1..Len(data) |->
                    IF i \in success THEN R(0) ELSE data[i].first_allocation]),
            RSum([i \in 1..Len(data) |-> col(i, data[i].rss)]),
            Len(data) - Cardinality(success))

\* wastage_simple(df, resource_column): no run time; usage is the resource used
\* by the jobs that ran (6 for usages 1..5 sized at 3)
wastage_simple(data) ==
    LET success == {i \in 1..Len(data) : RGe(data[i].first_allocation, data[i].rss)}
        col(i, v) == IF i \in success THEN v ELSE R(0)
    IN  IF Len(data) = 0 THEN NoWastage("AssertionError")
        ELSE Wastage(
            RSum([i \in 1..Len(data) |-> col(i, RSub(data[i].first_allocation, data[i].rss))]),
            RSum([i \in 1..Len(data) |->
                    IF i \in success THEN R(0) ELSE data[i].first_allocation]),
            RSum([i \in 1..Len(data) |-> col(i, data[i].rss)]),
            Len(data) - Cardinality(success))

\* per-job sums for the two policies whose reference loop is not part of the tests
wastage_simple_naive(data) ==
    LET j == [i \in 1..Len(data) |-> simple_job(data[i].rss, data[i].first_allocation)]
    IN  IF Len(data) = 0 THEN NoWastage("AssertionError")
        ELSE Wastage(RSum([i \in 1..Len(data) |-> j[i].oversizing]),
                     RSum([i \in 1..Len(data) |-> j[i].undersizing]),
                     RSum([i \in 1..Len(data) |-> j[i].usage]),
                     IntSum([i \in 1..Len(data) |-> j[i].fails]))

wastage_prop_ttf_naive(data, base) ==
    LET o == [i \in 1..Len(data) |->
                oversizing_wastage_exponential(data[i].rss, data[i].run_time,
                                               data[i].first_allocation, base)]
        u == [i \in 1..Len(data) |->
                undersizing_wastage_prop_ttf(data[i].rss, data[i].run_time,
                                             data[i].first_allocation, base)]
    IN  IF Len(data) = 0 THEN NoWastage("AssertionError")
        ELSE IF \E i \in 1..Len(data) : ~o[i].ok \/ ~u[i].ok THEN NoWastage("diverges")
        ELSE Wastage(RSum([i \in 1..Len(data) |-> o[i].oversizing]),
                     RSum([i \in 1..Len(data) |-> u[i].undersizing]),
                     usage_of(data),
                     IntSum([i \in 1..Len(data) |-> u[i].fails]))

-----------------------------------------------------------------------------
(* The wastage engine as a state machine: a population is drawn, sized by a  *)
(* LinearModel, and one policy is evaluated on it in its batch form and by   *)
(* the per-job reference.                                                    *)

\* the jobs a population is drawn from: <<input_size, rss, run_time>>
JobTable == {<<0, 0, 1>>, <<0, 2, 2>>, <<1, 2, 1>>, <<1, 5, 2>>, <<0, 5, 1>>, <<1, 0, 2>>}

Job(input_size, rss, run_time) ==
    [input_size |-> input_size, rss |-> rss, run_time |-> run_time, first_allocation |-> NaN]

Jobs == {Job(R(j[1]), R(j[2]), R(j[3])) : j \in JobTable}

Populations == UNION {[1..n -> Jobs] : n \in 0..MaxJobs}

SizingModels ==
    {LinearModel(R(s), R(c), R(2), R(m)) : s \in {0, 1}, c \in {-1, 1, 3}, m \in {0, 1}}

RelativeTtfs == {<<1, 2>>}
Bases == {R(2), <<3, 2>>}
SecondAllocations == {R(1), R(3)}
FinalAllocations == {R(1), R(2), R(5)}

NoModel == LinearModel(NaN, NaN, NaN, NaN)

NoArgs == [model |-> NoModel, relative_ttf |-> NaN, base |-> NaN,
           second_allocation |-> NaN, final_allocation |-> NaN]

NoColumns == [input_size |-> NaN, rss |-> NaN]

\* no data frame is being normalized in binary64
NoFrame ==
    /\ t_pc = "none"
    /\ t_training = [input_size |-> <<>>, rss |-> <<>>]
    /\ t_shift = [input_size |-> FNaN, rss |-> FNaN]
    /\ t_scale = [input_size |-> FNaN, rss |-> FNaN]
    /\ t_original = [input_size |-> <<>>, rss |-> <<>>]
    /\ t_data = [input_size |-> <<>>, rss |-> <<>>]

\* no LowWastageRegression instance exists
NoInstance ==
    /\ pc = "none"
    /\ training_input = <<>> /\ training_data = <<>>
    /\ min_allocation = NaN /\ relative_time_to_failure = NaN
    /\ shift = NoColumns /\ scale = NoColumns /\ initial_ptp = NoColumns
    /\ unscaled_mean_predictor = NaN
    /\ initial_parameterss = <<>> /\ cand = 0 /\ started = FALSE /\ iterates = 0
    /\ parameters_tried = <<>> /\ wastages_tried = <<>>
    /\ model = NoModel /\ quality = NoWastage("none")
    /\ evaluation = <<>> /\ prediction = <<>> /\ recomputed = NoWastage("none")

InitWastage ==
    /\ NoInstance
    /\ NoFrame
    /\ df \in Populations
    /\ policy = "unsized"
    /\ args = NoArgs
    /\ fast = NoWastage("none")
    /\ slow = NoWastage("none")

\* df['first_allocation'] = model.apply(df)
Size(m) ==
    /\ policy = "unsized"
    /\ df' = assign_first_allocation(df, apply(m, df))
    /\ policy' = "sized"
    /\ args' = [args EXCEPT !.model = m]
    /\ UNCHANGED <<fast, slow, ovars, tvars>>

Exponential(relative_ttf, base) ==
    /\ policy = "sized"
    /\ policy' = "exponential"
    /\ args' = [args EXCEPT !.relative_ttf = relative_ttf, !.base = base]
    /\ fast' = wastage_exponential(df, relative_ttf, base)
    /\ slow' = wastage_exponential_naive(df, relative_ttf, base)
    /\ UNCHANGED <<df, ovars, tvars>>

PropTtf(base) ==
    /\ policy = "sized"
    /\ policy' = "prop_ttf"
    /\ args' = [args EXCEPT !.base = base]
    /\ fast' = wastage_exponential_prop_ttf(df, base)
    /\ slow' = wastage_prop_ttf_naive(df, base)
    /\ UNCHANGED <<df, ovars, tvars>>

ThreeStep(max_seen_so_far, max_available, relative_ttf) ==
    /\ policy = "sized"
    /\ policy' = "3step"
    /\ args' = [args EXCEPT !.relative_ttf = relative_ttf,
                            !.second_allocation = max_seen_so_far,
                            !.final_allocation = max_available]
    /\ fast' = wastage_3step(df, max_seen_so_far, max_available, relative_ttf)
    /\ slow' = wastage_3step_naive(df, max_seen_so_far, max_available, relative_ttf)
    /\ UNCHANGED <<df, ovars, tvars>>

Simple ==
    /\ policy = "sized"
    /\ policy' = "simple"
    /\ fast' = wastage_simple(df)
    /\ slow' = wastage_simple_naive(df)
    /\ UNCHANGED <<df, args, ovars, tvars>>

NextWastage ==
    \/ \E m \in SizingModels : Size(m)
    \/ \E t \in RelativeTtfs, b \in Bases : Exponential(t, b)
    \/ \E b \in Bases : PropTtf(b)
    \/ \E a2 \in SecondAllocations, a3 \in FinalAllocations, t \in RelativeTtfs : ThreeStep(a2, a3, t)
    \/ Simple

SpecWastage == InitWastage /\ [][NextWastage]_vars

-----------------------------------------------------------------------------
(* Claims about the wastage engine (checked under SpecWastage)               *)

Rows == 1..Len(df)
Evaluated == policy \in {"exponential", "prop_ttf", "3step", "simple"}

\* two results agree: both fail the same way, or both are WastageResults with
\* the same failures, oversizing, undersizing and MAQ
SameAggregate(a, b) ==
    /\ a.status = b.status
    /\ a.status = "ok" =>
         /\ a.failures = b.failures
         /\ a.oversizing = b.oversizing
         /\ a.undersizing = b.undersizing
         /\ a.maq = b.maq

\* C2: for every policy and every non-empty population the batch result has
\* the same failures, oversizing, undersizing and MAQ as the sum of the
\* per-job reference functions over all jobs.
C2_VectorizedEqualsNaive ==
    (Evaluated /\ Len(df) > 0) => SameAggregate(fast, slow)

\* the same statement for the policies other than the three-step one
C2_ExponentialEqualsNaive ==
    (policy \in {"exponential", "prop_ttf", "simple"} /\ Len(df) > 0) => SameAggregate(fast, slow)

\* C4: the three-step oversizing of a job with final_allocation <
\* resource_usage always ends in a fatal error, also when an earlier attempt
\* already succeeds (real_usage=5, first=5, second=2, final=3); with
\* final_allocation >= resource_usage there is a result, also when
\* first_allocation exceeds the second or the final allocation.
C4_ThreeStepPrecondition ==
    /\ policy = "3step" =>
         /\ \A i \in Rows :
              oversizing_wastage_3step(df[i].rss, df[i].run_time, df[i].first_allocation,
                                       args.second_allocation, args.final_allocation).ok
                <=> RGe(args.final_allocation, df[i].rss)
         /\ Len(df) > 0 =>
              /\ slow.status \in {"ok", "AssertionError"}
              /\ slow.status = "AssertionError"
                   <=> \E i \in Rows : RLt(args.final_allocation, df[i].rss)
              /\ fast.status = slow.status
    /\ ~oversizing_wastage_3step(R(5), R(2), R(5), R(2), R(3)).ok
    /\ ~oversizing_wastage_3step(R(3), R(1), R(1), R(2), <<5, 2>>).ok
    /\ oversizing_wastage_3step(R(3), R(2), R(5), R(2), R(3)) = [ok |-> TRUE, oversizing |-> R(4)]

\* a job whose first attempt succeeds while the final allocation is too small,
\* and the computation ended in the fatal error
C4_Witness ==
    /\ policy = "3step"
    /\ slow.status = "AssertionError"
    /\ \E i \in Rows : /\ RGe(df[i].first_allocation, df[i].rss)
                       /\ RLt(args.final_allocation, df[i].rss)
    /\ \A i \in Rows : RGe(df[i].first_allocation, df[i].rss)

\* a job that has a result although its first allocation exceeds the final one
C4_WitnessResult ==
    /\ policy = "3step"
    /\ slow.status = "ok"
    /\ \E i \in Rows : RGt(df[i].first_allocation, args.final_allocation)

allocation_at(first_allocation, base, k) == RMul(first_allocation, RPow(base, k))

\* the allocations of attempts 0..k-1, summed
failed_allocations(first_allocation, base, k) ==
    RSum([j \in 1..k |-> allocation_at(first_allocation, base, j - 1)])

is_k_star(real_usage, first_allocation, base, k) ==
    /\ RGe(allocation_at(first_allocation, base, k), real_usage)
    /\ \A j \in 0..(k - 1) : RLt(allocation_at(first_allocation, base, j), real_usage)

has_k_star(i) ==
    \E k \in 0..MaxAttempts : is_k_star(df[i].rss, df[i].first_allocation, args.base, k)

the_k_star(i) ==
    CHOOSE k \in 0..MaxAttempts : is_k_star(df[i].rss, df[i].first_allocation, args.base, k)

\* C5: under the exponential policy attempt k requests a * base^k, the
\* failures are the smallest k* with a * base^k* >= resource_usage, the
\* undersizing is relative_ttf * run_time times the allocations of attempts
\* 0..k*-1 and the oversizing is (a * base^k* - resource_usage) * run_time;
\* usage 10, abs_ttf 2, a 1, base 2 gives 4 failures and undersizing 30, and
\* usage 20, run_time 2, a 7, base 2 gives oversizing 16.
C5_ExponentialPolicy ==
    /\ policy = "exponential" =>
         /\ \A i \in Rows : \A k \in 0..MaxAttempts :
              is_k_star(df[i].rss, df[i].first_allocation, args.base, k) =>
                LET abs_ttf == RMul(args.relative_ttf, df[i].run_time)
                    u == undersizing_wastage_exponential(df[i].rss, abs_ttf,
                                                         df[i].first_allocation, args.base)
                    o == oversizing_wastage_exponential(df[i].rss, df[i].run_time,
                                                        df[i].first_allocation, args.base)
                IN  /\ u.ok /\ o.ok
                    /\ u.fails = k
                    /\ u.undersizing =
                         RMul(abs_ttf, failed_allocations(df[i].first_allocation, args.base, k))
                    /\ o.oversizing =
                         RMul(RSub(allocation_at(df[i].first_allocation, args.base, k), df[i].rss),
                              df[i].run_time)
         /\ (Len(df) > 0 /\ \A i \in Rows : has_k_star(i)) =>
              \A w \in {fast, slow} :
                /\ w.status = "ok"
                /\ w.failures = IntSum([i \in Rows |-> the_k_star(i)])
                /\ w.undersizing =
                     RSum([i \in Rows |->
                            RMul(RMul(args.relative_ttf, df[i].run_time),
                                 failed_allocations(df[i].first_allocation, args.base,
                                                    the_k_star(i)))])
                /\ w.oversizing =
                     RSum([i \in Rows |->
                            RMul(RSub(allocation_at(df[i].first_allocation, args.base,
                                                    the_k_star(i)), df[i].rss),
                                 df[i].run_time)])
    /\ LET u == undersizing_wastage_exponential(R(10), R(2), R(1), R(2))
       IN  u.ok /\ u.fails = 4 /\ u.undersizing = R(30)
    /\ oversizing_wastage_exponential(R(20), R(2), R(7), R(2)) = [ok |-> TRUE, oversizing |-> R(16)]
    /\ oversizing_wastage_exponential(R(3), R(2), R(7), R(2)) = [ok |-> TRUE, oversizing |-> R(8)]

\* a job that fails at least twice on a run time other than 1, then succeeds
C5_Witness ==
    /\ policy = "exponential"
    /\ slow.status = "ok"
    /\ \E i \in Rows : has_k_star(i) /\ the_k_star(i) >= 2 /\ df[i].run_time = R(2)

\* the retry sequence of job i reaches an allocation >= resource_usage
retry_succeeds(i, base) ==
    /\ undersizing_wastage_exponential(df[i].rss, R(1), df[i].first_allocation, base).ok
    /\ undersizing_wastage_prop_ttf(df[i].rss, df[i].run_time, df[i].first_allocation, base).ok

\* C6 as stated: for any job sized by LinearModel.apply and any base > 1 the
\* retry sequence reaches an allocation >= resource_usage after finitely many
\* failed attempts (three-step: by the precondition on the final step).
C6_GuaranteedSuccess ==
    policy # "unsized" =>
        /\ \A i \in Rows, b \in Bases : retry_succeeds(i, b)
        /\ (policy \in {"exponential", "prop_ttf"} /\ Len(df) > 0) =>
              fast.status = "ok" /\ slow.status = "ok"
        /\ (policy = "3step" /\ Len(df) > 0 /\ \A i \in Rows : RGe(args.final_allocation, df[i].rss))
              => slow.status = "ok"

\* C6 amended: the same, for a sizing model whose min_allocation is positive.
C6_GuaranteedSuccessPositiveFloor ==
    (policy # "unsized" /\ RGt(args.model.min_allocation, R(0))) =>
        /\ \A i \in Rows : RGt(df[i].first_allocation, R(0))
        /\ \A i \in Rows, b \in Bases : retry_succeeds(i, b)
        /\ (policy \in {"exponential", "prop_ttf"} /\ Len(df) > 0) =>
              fast.status = "ok" /\ slow.status = "ok"
        /\ (policy = "3step" /\ Len(df) > 0 /\ \A i \in Rows : RGe(args.final_allocation, df[i].rss))
              => slow.status = "ok"

\* a job clipped to a positive min_allocation that succeeds after several failures
C6_Witness ==
    /\ policy = "exponential"
    /\ RGt(args.model.min_allocation, R(0))
    /\ slow.status = "ok"
    /\ \E i \in Rows : /\ df[i].first_allocation = args.model.min_allocation
                       /\ RLt(apply_unclipped(args.model, df[i].input_size), args.model.min_allocation)
                       /\ has_k_star(i) /\ the_k_star(i) >= 3

in_unit_interval(w) ==
    /\ RGe(w.oversizing, R(0))
    /\ RGe(w.undersizing, R(0))
    /\ RGe(w.usage, R(0))
    /\ RLe(R(0), w.maq) /\ RLe(w.maq, R(1))

wasted_or_used(w) == RGt(RAdd(w.usage, RAdd(w.oversizing, w.undersizing)), R(0))

\* C7 as stated: for every non-empty population, every assignment of first
\* allocations and every policy, 0 <= MAQ <= 1 with oversizing, undersizing
\* and usage >= 0.
C7_MaqBound ==
    (Evaluated /\ Len(df) > 0) =>
        \A w \in {fast, slow} : w.status = "ok" => in_unit_interval(w)

\* C7 amended: oversizing, undersizing and usage are >= 0, and 0 <= MAQ <= 1
\* whenever usage + oversizing + undersizing > 0.
C7_MaqBoundWhenDefined ==
    (Evaluated /\ Len(df) > 0) =>
        \A w \in {fast, slow} : w.status = "ok" =>
            /\ RGe(w.oversizing, R(0)) /\ RGe(w.undersizing, R(0)) /\ RGe(w.usage, R(0))
            /\ wasted_or_used(w) => in_unit_interval(w)
            /\ ~wasted_or_used(w) => IsNaN(w.maq)

\* a result with failures and with 0 < MAQ < 1
C7_Witness ==
    /\ Evaluated
    /\ fast.status = "ok" /\ fast.failures > 0
    /\ RLt(R(0), fast.maq) /\ RLt(fast.maq, R(1))

\* the population of the simple-policy scenario: usages 1..5 sized at 3
simple_scenario ==
    [i \in 1..5 |-> [input_size |-> R(0), rss |-> R(i), run_time |-> R(1),
                     first_allocation |-> R(3)]]

\* C8: under the simple policy a job with first_allocation >= resource_usage
\* contributes oversizing first_allocation - resource_usage, no undersizing
\* and no failure; every other job contributes one failure, its whole first
\* allocation as undersizing and no oversizing; usages 1..5 sized at 3 give
\* failures 2, usage 6, oversizing 3, undersizing 6.
C8_SimplePolicy ==
    /\ (policy = "simple" /\ Len(df) > 0) =>
         LET ok_rows == {i \in Rows : RGe(df[i].first_allocation, df[i].rss)}
         IN  /\ fast.status = "ok"
             /\ fast.failures = Cardinality(Rows \ ok_rows)
             /\ fast.oversizing =
                  RSum([i \in Rows |-> IF i \in ok_rows
                                       THEN RSub(df[i].first_allocation, df[i].rss) ELSE R(0)])
             /\ fast.undersizing =
                  RSum([i \in Rows |-> IF i \in ok_rows THEN R(0) ELSE df[i].first_allocation])
             /\ SameAggregate(fast, slow)
    /\ LET w == wastage_simple(simple_scenario)
       IN  w.failures = 2 /\ w.usage = R(6) /\ w.oversizing = R(3) /\ w.undersizing = R(6)

\* a population with a job sized exactly at its usage and a job that fails
C8_Witness ==
    /\ policy = "simple"
    /\ fast.status = "ok" /\ fast.failures = 1
    /\ \E i \in Rows : df[i].first_allocation = df[i].rss /\ RGt(df[i].rss, R(0))

-----------------------------------------------------------------------------
(* LowWastageRegression: helpers on columns                                  *)

\* [self.predictor_column, self.resource_column]
Columns == {"input_size", "rss"}

column(data, c) == [i \in 1..Len(data) |-> data[i][c]]

RECURSIVE np_min(_)
np_min(s) ==
    IF Len(s) = 1 THEN s[1]
    ELSE LET m == np_min(Tail(s)) IN IF RLt(m, s[1]) THEN m ELSE s[1]

RECURSIVE np_max(_)
np_max(s) ==
    IF Len(s) = 1 THEN s[1]
    ELSE LET m == np_max(Tail(s)) IN IF RGt(m, s[1]) THEN m ELSE s[1]

np_ptp(s) == RSub(np_max(s), np_min(s))

mean(s) == RDiv(RSum(s), R(Len(s)))

RECURSIVE insert_sorted(_, _)
insert_sorted(x, s) ==
    IF s = <<>> THEN <<x>>
    ELSE IF RLe(x, s[1]) THEN <<x>> \o s
    ELSE <<s[1]>> \o insert_sorted(x, Tail(s))

RECURSIVE sorted(_)
sorted(s) == IF s = <<>> THEN <<>> ELSE insert_sorted(s[1], sorted(Tail(s)))

\* Series.quantile(q) / np.percentile: linear interpolation between the order
\* statistics around position q * (n - 1)
quantile(s, q) ==
    LET v == sorted(s)
        n == Len(s)
        pos == RMul(q, R(n - 1))
        lo == RFloor(pos)
        frac == RSub(pos, R(lo))
    IN  IF lo + 1 >= n THEN v[n]
        ELSE RAdd(v[lo + 1], RMul(frac, RSub(v[lo + 2], v[lo + 1])))

\* scipy.stats.iqr: the 75th minus the 25th percentile
iqr(s) == RSub(quantile(s, <<3, 4>>), quantile(s, <<1, 4>>))

\* __transform__: data[column] = (data[column] - shift[column]) / scale[column]
transform_columns(data, sh, sc) ==
    [i \in 1..Len(data) |->
        [data[i] EXCEPT !.input_size = RDiv(RSub(@, sh.input_size), sc.input_size),
                        !.rss = RDiv(RSub(@, sh.rss), sc.rss)]]

\* __inverse_transform__: data[column] = data[column] * scale[column] + shift[column]
inverse_transform_columns(data, sh, sc) ==
    [i \in 1..Len(data) |->
        [data[i] EXCEPT !.input_size = RAdd(RMul(@, sc.input_size), sh.input_size),
                        !.rss = RAdd(RMul(@, sc.rss), sh.rss)]]

\* __predictor_varies_enough__
predictor_varies_enough(ptp, mean_predictor) ==
    RGt(ptp.input_size, RMul(<<5, 100>>, mean_predictor))

\* __linear_model__
linear_model(slope, intercept, base) == LinearModel(slope, intercept, base, min_allocation)

\* the default of the steps parameter of __quantile_regression__
steps == 5

\* np.linspace(start, stop, num)[i - 1]
linspace(start, stop, num, i) ==
    RAdd(start, RMul(R(i - 1), RDiv(RSub(stop, start), R(num - 1))))

\* [1 - a ** 2 for a in np.linspace(0.01, 0.7, steps)]
quantile_candidates ==
    [i \in 1..steps |->
        LET a == linspace(<<1, 100>>, <<7, 10>>, steps, i) IN RSub(R(1), RMul(a, a))]

\* __quantile_regression__; fits[i] = <<slope_confidence_upper, Intercept>> is what
\* the quantile regressor returns for the i-th level (a NaN slope for a
\* degenerate fit)
quantile_regression(data, ptp, mean_predictor, fits) ==
    IF ~predictor_varies_enough(ptp, mean_predictor)
    THEN [i \in 1..steps |->
            linear_model(R(0), quantile(column(data, "input_size"), quantile_candidates[i]), R(2))]
    ELSE [i \in 1..steps |->
            IF IsNaN(fits[i][1])
            THEN linear_model(R(0), quantile(column(data, "rss"), quantile_candidates[i]), NaN)
            ELSE linear_model(fits[i][1], fits[i][2], NaN)]

\* __train_linear__: the candidate from the interquartile ranges
iqr_candidate(data) ==
    LET iqr_predictor == iqr(column(data, "input_size"))
        iqr_resource == iqr(column(data, "rss"))
        slope == IF RGt(iqr_predictor, R(0)) THEN RDiv(iqr_resource, iqr_predictor) ELSE R(0)
        intercept == RSub(mean(column(data, "rss")),
                          RMul(slope, mean(column(data, "input_size"))))
    IN  linear_model(slope, intercept, R(2))

\* wastage_func = partial(Wastage.exponential, ..., relative_ttf = self.relative_time_to_failure)
wastage_func(data) == wastage_exponential(data, relative_time_to_failure, R(2))

RECURSIVE py_max_last(_, _, _)
\* max(...) keeping the last of several maximal items
py_max_last(keys, i, best) ==
    IF i > Len(keys) THEN best
    ELSE py_max_last(keys, i + 1, IF RGe(keys[i], keys[best]) THEN i ELSE best)

RECURSIVE py_max(_, _, _)
\* max(iterable, key = ...): the index of the item kept; a later item replaces
\* the current one only if its key is greater
py_max(keys, i, best) ==
    IF i > Len(keys) THEN best
    ELSE py_max(keys, i + 1, IF RGt(keys[i], keys[best]) THEN i ELSE best)

-----------------------------------------------------------------------------
(* LowWastageRegression: construction, training, predict                     *)

\* additional points the COBYLA optimizer may evaluate, over all candidates
MaxIterates == 1

Row(input_size, rss, run_time) == Job(R(input_size), R(rss), R(run_time))

\* training populations: an already normalized one, the perfectly predictable
\* one of test_perfectly_predictable, a noisy one, one whose resource column
\* has zero variance, the two of test_transform (constant predictor) and one
\* whose predictor varies by less than 5% of its mean
TrainingTables ==
    { <<Row(0, 0, 1), Row(1, 1, 2)>>,
      <<Row(2, 4, 1), Row(5, 10, 1), Row(3, 6, 1), Row(1, 2, 1), Row(6, 12, 1)>>,
      <<Row(0, 1, 2), Row(2, 3, 1), Row(1, 3, 1)>>,
      <<Row(1, 7, 1), Row(2, 7, 2)>>,
      <<Row(0, -1, 1), Row(0, 2, 1), Row(0, 7, 1)>>,
      <<Row(0, 7, 1), Row(0, 7, 1), Row(0, 7, 1)>>,
      <<Row(40, 1, 1), Row(41, 3, 1)>> }

\* populations predict is called with, besides the training population
EvaluationTables == { <<Row(5, 9, 1), Row(-1, 0, 2)>> }

\* the min_allocation argument (positive: a job whose first allocation is 0
\* never succeeds under the exponential policy)
MinAllocations == {<<1, 4>>, R(1)}

\* what the quantile regressor may return for the sweep: for every level a
\* degenerate fit (NaN slope), for every level the same line, or both kinds
FitSweeps ==
    { [i \in 1..steps |-> <<NaN, NaN>>],
      [i \in 1..steps |-> <<R(1), R(0)>>],
      [i \in 1..steps |-> IF i <= 2 THEN <<NaN, NaN>> ELSE <<<<1, 2>>, <<1, 2>>>>] }

\* points <<slope, intercept>> the optimizer may evaluate after its initial one
IterGrid == { <<<<3, 4>>, <<1, 4>>>>, <<R(0), R(1)>>, <<R(1), R(0)>> }

\* the wastage engine is not in use
NoPopulation ==
    /\ df = <<>> /\ policy = "none" /\ args = NoArgs
    /\ fast = NoWastage("none") /\ slow = NoWastage("none")

\* LowWastageRegression(training_data, 'input_size', 'rss', 'run_time',
\*                      relative_time_to_failure, min_allocation) is called
Init ==
    /\ NoPopulation
    /\ NoFrame
    /\ pc = "new"
    /\ training_input \in TrainingTables
    /\ min_allocation \in MinAllocations
    /\ relative_time_to_failure = <<1, 2>>
    /\ training_data = <<>>
    /\ shift = NoColumns /\ scale = NoColumns /\ initial_ptp = NoColumns
    /\ unscaled_mean_predictor = NaN
    /\ initial_parameterss = <<>> /\ cand = 0 /\ started = FALSE /\ iterates = 0
    /\ parameters_tried = <<>> /\ wastages_tried = <<>>
    /\ model = NoModel /\ quality = NoWastage("none")
    /\ evaluation = <<>> /\ prediction = <<>> /\ recomputed = NoWastage("none")

\* __init__ up to the call of __train__: the scaling parameters and the
\* normalized copy of the training data
Normalize ==
    /\ pc = "new"
    /\ LET sh == [c \in Columns |-> np_min(column(training_input, c))]
           ptp == [c \in Columns |-> np_ptp(column(training_input, c))]
           sc == [c \in Columns |-> IF ptp[c] # R(0) THEN ptp[c] ELSE R(1)]
       IN  /\ shift' = sh
           /\ initial_ptp' = ptp
           /\ scale' = sc
           /\ training_data' = transform_columns(training_input, sh, sc)
    /\ unscaled_mean_predictor' = mean(column(training_input, "input_size"))
    /\ pc' = "train"
    /\ UNCHANGED <<wvars, tvars, training_input, min_allocation, relative_time_to_failure,
                   initial_parameterss, cand, started, iterates, parameters_tried,
                   wastages_tried, model, quality, evaluation, prediction, recomputed>>

\* __train__ when the predictor does not vary enough: __train_quantile__
\* returns None, and unpacking it into self.model, self.quality raises
TrainQuantile ==
    /\ pc = "train"
    /\ ~predictor_varies_enough(initial_ptp, unscaled_mean_predictor)
    /\ pc' = "TypeError"
    /\ UNCHANGED <<wvars, tvars, training_input, min_allocation, relative_time_to_failure, shift,
                   scale, initial_ptp, unscaled_mean_predictor, training_data,
                   initial_parameterss, cand, started, iterates, parameters_tried,
                   wastages_tried, model, quality, evaluation, prediction, recomputed>>

\* __train_linear__ up to the loop over the candidates
TrainLinear(fits) ==
    /\ pc = "train"
    /\ predictor_varies_enough(initial_ptp, unscaled_mean_predictor)
    /\ initial_parameterss' =
         Append(quantile_regression(training_data, initial_ptp, unscaled_mean_predictor, fits),
                iqr_candidate(training_data))
    /\ parameters_tried' = <<>>
    /\ wastages_tried' = <<>>
    /\ cand' = 1
    /\ started' = FALSE
    /\ pc' = "minimize"
    /\ UNCHANGED <<wvars, tvars, training_input, min_allocation, relative_time_to_failure, shift,
                   scale, initial_ptp, unscaled_mean_predictor, training_data, iterates,
                   model, quality, evaluation, prediction, recomputed>>

\* the objective wastage(model_params) of __train_linear__ with optimize_base
\* False: sizes the training data, records the model and its WastageResult
wastage(slope, intercept) ==
    LET params == linear_model(slope, intercept, R(2))
        sized == assign_first_allocation(training_data, apply(params, training_data))
    IN  /\ training_data' = sized
        /\ parameters_tried' = Append(parameters_tried, params)
        /\ wastages_tried' = Append(wastages_tried, wastage_func(sized))

\* spo.minimize(fun = wastage, x0 = [slope, intercept], method = "COBYLA"):
\* the optimizer evaluates the objective at x0 first
MinimizeStart ==
    /\ pc = "minimize"
    /\ ~started
    /\ wastage(initial_parameterss[cand].slope, initial_parameterss[cand].intercept)
    /\ started' = TRUE
    /\ UNCHANGED <<wvars, tvars, pc, training_input, min_allocation, relative_time_to_failure,
                   shift, scale, initial_ptp, unscaled_mean_predictor, initial_parameterss,
                   cand, iterates, model, quality, evaluation, prediction, recomputed>>

\* the optimizer evaluates the objective at a further point
MinimizeIterate(x) ==
    /\ pc = "minimize"
    /\ started
    /\ iterates < MaxIterates
    /\ wastage(x[1], x[2])
    /\ iterates' = iterates + 1
    /\ UNCHANGED <<wvars, tvars, pc, training_input, min_allocation, relative_time_to_failure,
                   shift, scale, initial_ptp, unscaled_mean_predictor, initial_parameterss,
                   cand, started, model, quality, evaluation, prediction, recomputed>>

\* spo.minimize returns and the loop goes to the next candidate
MinimizeReturn ==
    /\ pc = "minimize"
    /\ started
    /\ cand < Len(initial_parameterss)
    /\ cand' = cand + 1
    /\ started' = FALSE
    /\ UNCHANGED <<wvars, tvars, pc, training_input, min_allocation, relative_time_to_failure,
                   shift, scale, initial_ptp, unscaled_mean_predictor, training_data,
                   initial_parameterss, iterates, parameters_tried, wastages_tried, model,
                   quality, evaluation, prediction, recomputed>>

\* the last spo.minimize returns: max(zip(parameters_tried, wastages_tried),
\* key = maq) becomes self.model, self.quality.  The two lists are locals of
\* __train_linear__; the model keeps them as the record of the run.
Select ==
    /\ pc = "minimize"
    /\ started
    /\ cand = Len(initial_parameterss)
    /\ LET best == py_max([i \in 1..Len(wastages_tried) |-> wastages_tried[i].maq], 2, 1)
       IN  /\ model' = parameters_tried[best]
           /\ quality' = wastages_tried[best]
    /\ pc' = "trained"
    /\ UNCHANGED <<wvars, tvars, training_input, min_allocation, relative_time_to_failure,
                   shift, scale, initial_ptp, unscaled_mean_predictor, training_data,
                   initial_parameterss, cand, started, iterates, parameters_tried,
                   wastages_tried, evaluation, prediction, recomputed>>

\* predict(data): the returned column
predict(data) ==
    LET d1 == transform_columns(data, shift, scale)
        d2 == assign_first_allocation(d1, apply(model, d1))
        d3 == inverse_transform_columns(d2, shift, scale)
    IN  column(d3, "first_allocation")

Trained == pc \in {"trained", "predicted", "evaluated"}

\* predict refitting the scaling parameters to the data it is given
Predict_refit(data) ==
    /\ Trained
    /\ LET sh == [c \in Columns |-> np_min(column(data, c))]
           ptp == [c \in Columns |-> np_ptp(column(data, c))]
           sc == [c \in Columns |-> IF ptp[c] # R(0) THEN ptp[c] ELSE R(1)]
       IN  /\ shift' = sh
           /\ scale' = sc
           /\ prediction' = apply(model, transform_columns(data, sh, sc))
    /\ evaluation' = data
    /\ recomputed' = NoWastage("none")
    /\ pc' = "predicted"
    /\ UNCHANGED <<wvars, tvars, training_input, min_allocation, relative_time_to_failure,
                   initial_ptp, unscaled_mean_predictor, training_data,
                   initial_parameterss, cand, started, iterates, parameters_tried,
                   wastages_tried, model, quality>>

\* first_allocation = lwr.predict(data)
Predict(data) ==
    /\ Trained
    /\ evaluation' = data
    /\ prediction' = predict(data)
    /\ recomputed' = NoWastage("none")
    /\ pc' = "predicted"
    /\ UNCHANGED <<wvars, tvars, training_input, min_allocation, relative_time_to_failure,
                   shift, scale, initial_ptp, unscaled_mean_predictor, training_data,
                   initial_parameterss, cand, started, iterates, parameters_tried,
                   wastages_tried, model, quality>>

\* evaluation['first_allocation'] = the prediction;
\* w = Wastage.exponential(evaluation, 0.5, ...)
Evaluate ==
    /\ pc = "predicted"
    /\ recomputed' = wastage_exponential(assign_first_allocation(evaluation, prediction),
                                         <<1, 2>>, R(2))
    /\ pc' = "evaluated"
    /\ UNCHANGED <<wvars, tvars, training_input, min_allocation, relative_time_to_failure,
                   shift, scale, initial_ptp, unscaled_mean_predictor, training_data,
                   initial_parameterss, cand, started, iterates, parameters_tried,
                   wastages_tried, model, quality, evaluation, prediction>>

Next ==
    \/ Normalize
    \/ TrainQuantile
    \/ \E fits \in FitSweeps : TrainLinear(fits)
    \/ MinimizeStart
    \/ \E x \in IterGrid : MinimizeIterate(x)
    \/ MinimizeReturn
    \/ Select
    \/ \E data \in EvaluationTables \cup {training_input} : Predict(data)
    \/ Evaluate

Spec == Init /\ [][Next]_vars

-----------------------------------------------------------------------------
(* Claims about LowWastageRegression (checked under Spec)                    *)

\* assertAlmostEqual(a, b, 2) of test_train_evaluation: round(a - b, 2) == 0
almost_equal(a, b) == RLt(RAbs(RSub(a, b)), <<5, 1000>>)

\* C1 (train/predict consistency): whenever predict has been applied to the
\* instance's own training population and the exponential-policy WastageResult
\* has been recomputed from the returned allocations, its oversizing,
\* undersizing, failures and MAQ equal those of the quality stored at training
\* time, to 2 decimal places.
C1_TrainPredictConsistency ==
    (pc = "evaluated" /\ evaluation = training_input) =>
        /\ recomputed.status = "ok"
        /\ almost_equal(quality.oversizing, recomputed.oversizing)
        /\ almost_equal(quality.undersizing, recomputed.undersizing)
        /\ quality.failures = recomputed.failures
        /\ almost_equal(quality.maq, recomputed.maq)

\* the training population of this instance makes the skip-regression guard apply
guard_applies == ~predictor_varies_enough(initial_ptp, unscaled_mean_predictor)

\* C9 (skip-regression guard): once training has run on a population whose
\* predictor range is at most 5% of its mean, construction has completed with
\* a trained model, and that model has zero slope and, as intercept, the
\* (normalized) resource column's empirical quantile at one of the levels of
\* the sweep.
C9_SkipRegressionGuard ==
    (pc \notin {"new", "train"} /\ guard_applies) =>
        /\ Trained
        /\ \E i \in 1..steps :
              /\ model.slope = R(0)
              /\ model.intercept = quantile(column(training_data, "rss"), quantile_candidates[i])

recorded == 1..Len(wastages_tried)

\* the i-th recorded result has the largest MAQ of all recorded results
max_maq(i) == \A j \in recorded : RLe(wastages_tried[j].maq, wastages_tried[i].maq)

training_shift == [c \in Columns |-> np_min(column(training_input, c))]

training_scale ==
    [c \in Columns |->
        IF np_ptp(column(training_input, c)) # R(0) THEN np_ptp(column(training_input, c))
        ELSE R(1)]

\* the model training selected: the first recorded one with the largest MAQ
selected_model == parameters_tried[CHOOSE i \in recorded :
                      /\ max_maq(i)
                      /\ \A j \in 1..(i - 1) : RLt(wastages_tried[j].maq, wastages_tried[i].maq)]

\* C11 (training-time scaling is frozen): after training and after any
\* sequence of predict calls, on the training population or on other data,
\* the instance's shift and scale are those computed from the training
\* population, its LinearModel (slope, intercept, base, min_allocation) is the
\* one training selected, and the column predict returned is that model
\* applied to the data normalized with the training shift and scale.
C11_ScalingFrozen ==
    Trained =>
        /\ shift = training_shift
        /\ scale = training_scale
        /\ model = selected_model
        /\ model.min_allocation = min_allocation
        /\ pc \in {"predicted", "evaluated"} =>
              prediction = apply(model, transform_columns(evaluation, training_shift,
                                                          training_scale))

\* predict has been called on data other than the training population, whose
\* own minimum and range differ from the training shift and scale
C11_Witness ==
    /\ pc = "predicted"
    /\ evaluation # training_input
    /\ np_min(column(evaluation, "rss")) # shift.rss
    /\ np_ptp(column(evaluation, "input_size")) # scale.input_size

-----------------------------------------------------------------------------
(* __transform__ and __inverse_transform__ in binary64 arithmetic.  The data *)
(* are integer columns, as in test_transform; numpy computes the normalized  *)
(* columns and everything derived from them in float64.                      *)

\* largest peak-to-peak range of a drawn training resource column
MaxRange == 11

\* largest resource value of a drawn data frame
MaxValue == 15

\* the training frames of test_transform (negative values; zero variance) and
\* two-row frames over the ranges 0 .. MaxRange
TrainingFrames ==
    { [input_size |-> <<0, 0, 0>>, rss |-> <<-1, 2, 7>>],
      [input_size |-> <<0, 0, 0>>, rss |-> <<7, 7, 7>>] }
    \cup { [input_size |-> <<1, 4>>, rss |-> <<lo, lo + r>>] : lo \in {-3, 0}, r \in 0..MaxRange }

\* data frames passed to __transform__, besides the training frame itself
DataFrames == { [input_size |-> <<2>>, rss |-> <<v>>] : v \in (-2)..MaxValue }

int_min(s) == CHOOSE m \in {s[i] : i \in 1..Len(s)} : \A i \in 1..Len(s) : m <= s[i]

int_max(s) == CHOOSE m \in {s[i] : i \in 1..Len(s)} : \A i \in 1..Len(s) : m >= s[i]

\* self.shift[column] = np.min(self.training_data[column])
fit_shift(training) == [c \in Columns |-> FFromInt(int_min(training[c]))]

\* self.scale[column] = self.initial_ptp[column], without the fallback to 1
fit_scale_unguarded(training) ==
    [c \in Columns |-> FFromInt(int_max(training[c]) - int_min(training[c]))]

\* self.initial_ptp[column] = np.ptp(self.training_data[column]);
\* self.scale[column] = self.initial_ptp[column] if self.initial_ptp[column] != 0 else 1
fit_scale(training) ==
    [c \in Columns |->
        LET initial_ptp_c == int_max(training[c]) - int_min(training[c])
        IN  FFromInt(IF initial_ptp_c # 0 THEN initial_ptp_c ELSE 1)]

\* the frame of integers as a frame of binary64 values
as_float(frame) == [c \in Columns |-> [i \in 1..Len(frame[c]) |-> FFromInt(frame[c][i])]]

\* __transform__: data[column] = (data[column] - self.shift[column]) / self.scale[column]
transform(data) ==
    [c \in Columns |->
        [i \in 1..Len(data[c]) |-> FDiv(FSub(data[c][i], t_shift[c]), t_scale[c])]]

\* __inverse_transform__: data[column] = data[column] * self.scale[column] + self.shift[column]
inverse_transform(data) ==
    [c \in Columns |->
        [i \in 1..Len(data[c]) |-> FAdd(FMul(data[c][i], t_scale[c]), t_shift[c])]]

InitTransform ==
    /\ NoPopulation
    /\ NoInstance
    /\ t_pc = "new"
    /\ t_training \in TrainingFrames
    /\ t_shift = [c \in Columns |-> FNaN]
    /\ t_scale = [c \in Columns |-> FNaN]
    /\ t_original = [c \in Columns |-> <<>>]
    /\ t_data = [c \in Columns |-> <<>>]

\* __init__: the scaling parameters of the two columns
Fit ==
    /\ t_pc = "new"
    /\ t_shift' = fit_shift(t_training)
    /\ t_scale' = fit_scale(t_training)
    /\ t_pc' = "fitted"
    /\ UNCHANGED <<wvars, ovars, t_training, t_original, t_data>>

\* lwr.__transform__(data)
Transform(data) ==
    /\ t_pc = "fitted"
    /\ t_original' = data
    /\ t_data' = transform(as_float(data))
    /\ t_pc' = "transformed"
    /\ UNCHANGED <<wvars, ovars, t_training, t_shift, t_scale>>

\* lwr.__inverse_transform__(data)
InverseTransform ==
    /\ t_pc = "transformed"
    /\ t_data' = inverse_transform(t_data)
    /\ t_pc' = "restored"
    /\ UNCHANGED <<wvars, ovars, t_training, t_shift, t_scale, t_original>>

NextTransform ==
    \/ Fit
    \/ \E data \in DataFrames \cup {t_training} : Transform(data)
    \/ InverseTransform

SpecTransform == InitTransform /\ [][NextTransform]_vars

-----------------------------------------------------------------------------
(* Claims about the normalization (checked under SpecTransform)              *)

Cells == {<<c, i>> \in Columns \X (1..3) : i <= Len(t_original[c])}

\* the element of the data frame at cell x, before __transform__
original_at(x) == FFromInt(t_original[x[1]][x[2]])

\* the transformed training column lies in [0, 1] with its minimum at 0
training_normalized ==
    (t_pc = "transformed" /\ t_original = t_training) =>
        \A c \in Columns :
            /\ \A i \in 1..Len(t_data[c]) :
                  FLe(FZero, t_data[c][i]) /\ FLe(t_data[c][i], FFromInt(1))
            /\ \E i \in 1..Len(t_data[c]) :
                  t_training[c][i] = int_min(t_training[c]) /\ t_data[c][i] = FZero

\* C3 (normalize/denormalize round trip): __inverse_transform__ after
\* __transform__ returns every element of the two columns to its original
\* value, and __transform__ maps the training columns into [0, 1] with their
\* minimum at 0.
C3_RoundTrip ==
    /\ t_pc = "restored" => \A x \in Cells : FEq(t_data[x[1]][x[2]], original_at(x))
    /\ training_normalized

\* |restored - original| <= 2^-51 * max(|original - shift|, |original|)
within_rounding(x) ==
    LET err == FAbs(FSub(t_data[x[1]][x[2]], original_at(x)))
        d == FAbs(FSub(original_at(x), t_shift[x[1]]))
    IN  \/ FLe(FScale2(err, 51), d)
        \/ FLe(FScale2(err, 51), FAbs(original_at(x)))

\* C3, as it holds: the round trip returns every element exactly when the
\* column's scale is 1 (a zero-variance training column among them) and when
\* the element is the training column's minimum or maximum; every other
\* element is returned to within the rounding error of the three binary64
\* operations; and __transform__ maps the training columns into [0, 1] with
\* their minimum at 0.
C3_RoundTripUpToRounding ==
    /\ t_pc = "restored" =>
          \A x \in Cells :
              /\ within_rounding(x)
              /\ (\/ t_scale[x[1]] = FFromInt(1)
                  \/ t_original[x[1]][x[2]] = int_min(t_training[x[1]])
                  \/ t_original[x[1]][x[2]] = int_max(t_training[x[1]]))
                 => FEq(t_data[x[1]][x[2]], original_at(x))
    /\ training_normalized

\* a round trip has ended in which one element came back changed by rounding
\* and another came back exactly
C3_Witness ==
    /\ t_pc = "restored"
    /\ \E x \in Cells : ~FEq(t_data[x[1]][x[2]], original_at(x))
    /\ \E x \in Cells : FEq(t_data[x[1]][x[2]], original_at(x))

=============================================================================
